---- MODULE Spec2Model ----
(***************************************************************************)
(* A model of the AIND-Recognizer core: the four model selectors of        *)
(* my_model_selectors.py (SelectorConstant, SelectorBIC, SelectorDIC,      *)
(* SelectorCV) and recognize / calculate_score of my_recognizer.py.        *)
(*                                                                         *)
(* The sequence model (hmmlearn's GaussianHMM) is a black box: every fit   *)
(* either succeeds or raises, every score either raises or returns a       *)
(* log-likelihood drawn from a small set.  Python floats are modelled as   *)
(* extended rationals: a finite value num/den, -inf, +inf or NaN, compared *)
(* as IEEE-754 compares them.                                              *)
(***************************************************************************)
EXTENDS Integers, Sequences, FiniteSets, TLC

(* ------------------------------ bounds --------------------------------- *)
\* state counts range over 1..MaxN
MaxN == 3
\* a word has 1..MaxSeqs training sequences
MaxSeqs == 5
\* the vocabulary has 0..MaxOthers words besides this_word
MaxOthers == 2
\* the model table of recognize has 0..MaxWords words
MaxWords == 2
\* the test set has 0..MaxItems items
MaxItems == 2
\* log-likelihoods returned by GaussianHMM.score in recognize and SelectorBIC
LogLs == {-2, -1, 0}
\* log-likelihoods returned while SelectorDIC and SelectorCV evaluate a candidate
CandidateLogLs == {-1, 0}
\* X.shape of the word's data: number of frames, number of features
FrameCounts == {1, 2}
FeatureCounts == {1, 2}
\* n_splits of KFold(): 3 in scikit-learn before 0.22, 5 since
KFoldDefaults == {3, 5}

(* --------------------------- program constants ------------------------- *)
\* b_model = self.base_model(3)
FallbackStates == 3
\* if len(self.sequences) < 3
CVMinSequences == 3

(* ------------------------- floats as Python has them ------------------- *)
Num(x) == [k |-> "num", num |-> x, den |-> 1]
Ratio(x, d) == [k |-> "num", num |-> x, den |-> d]
NegInf == [k |-> "ninf", num |-> 0, den |-> 1]
PosInf == [k |-> "pinf", num |-> 0, den |-> 1]
NaN == [k |-> "nan", num |-> 0, den |-> 1]
\* the outcome of a score call that raised
Raise == [k |-> "raise", num |-> 0, den |-> 1]

\* a > b on floats: every comparison with NaN is false
GT(a, b) ==
    CASE a.k = "nan" \/ b.k = "nan" -> FALSE
      [] a.k = "pinf" -> b.k # "pinf"
      [] a.k = "ninf" -> FALSE
      [] OTHER -> \/ b.k = "ninf"
                  \/ b.k = "num" /\ a.num * b.den > b.num * a.den

\* a < b on floats
LT(a, b) == GT(b, a)

\* a >= b on floats
GE(a, b) ==
    CASE a.k = "nan" \/ b.k = "nan" -> FALSE
      [] a.k = "pinf" -> TRUE
      [] a.k = "ninf" -> b.k = "ninf"
      [] OTHER -> \/ b.k = "ninf"
                  \/ b.k = "num" /\ a.num * b.den >= b.num * a.den

\* a - b for a finite a
Sub(a, b) ==
    CASE b.k = "nan" -> NaN
      [] b.k = "pinf" -> NegInf
      [] b.k = "ninf" -> PosInf
      [] OTHER -> Ratio(a.num * b.den - b.num * a.den, a.den * b.den)

\* bool(x) of a float: only 0.0 is falsy
Truthy(x) == ~(x.k = "num" /\ x.num = 0)

RECURSIVE SumSeq(_)
SumSeq(q) == IF q = <<>> THEN 0 ELSE Head(q) + SumSeq(Tail(q))

\* a mean that takes the empty list to 0
NpMeanZeroIfEmpty(q) == IF q = <<>> THEN Num(0) ELSE Ratio(SumSeq(q), Len(q))

\* numpy.mean of a list of floats: NaN (and a RuntimeWarning) for the empty list
NpMean(q) == IF q = <<>> THEN NaN ELSE Ratio(SumSeq(q), Len(q))

\* statistics.mean of a non-empty list of floats
StatisticsMean(q) == Ratio(SumSeq(q), Len(q))

\* numpy.log(N) in thousandths
LnMilli(N) ==
    CASE N = 1 -> 0
      [] N = 2 -> 693
      [] N = 3 -> 1099
      [] N = 4 -> 1386
      [] OTHER -> 1609

SetMin(S) == CHOOSE x \in S : \A y \in S : x <= y

(* ------------------------------- state --------------------------------- *)
None == -1

VARIABLES
    strategy,           \* which entry point runs: a selector's select, or recognize
    n_constant, min_n_components, max_n_components,   \* ModelSelector fields
    others,             \* number of words of self.words other than this_word
    sequences,          \* len(self.sequences)
    frames, features,   \* self.X.shape
    n_splits,           \* KFold().n_splits
    pc,                 \* position in the running function
    n,                  \* loop variable of select
    s, b_s,             \* candidate score, best score
    model, b_model,     \* references into heap, or None
    scores, fold,       \* SelectorCV: fold scores so far, next fold (0-based)
    heap,               \* the live GaussianHMM objects
    result,             \* what select returned
    hist,               \* what fit and score did for each candidate (history)
    models,             \* recognize: word -> whether its model is non-null
    items,              \* recognize: number of test items
    item,               \* recognize: next test item (1-based)
    probabilities, guesses,   \* recognize: the two lists being built
    attempts            \* what score did for each word of each item (history)

selVars == <<n, s, b_s, model, b_model, scores, fold, heap, result, hist>>
recVars == <<item, probabilities, guesses, attempts>>
cfgVars == <<strategy, n_constant, min_n_components, max_n_components, others,
             sequences, frames, features, n_splits, models, items>>
vars == <<cfgVars, pc, selVars, recVars>>

States == 1..MaxN
ScoreOutcomes == {Raise} \cup {Num(v) : v \in LogLs}
CandidateOutcomes == {Raise} \cup {Num(v) : v \in CandidateLogLs}

\* all of the word's sequences, as KFold and combine_sequences index them
AllSequences == 0..(sequences - 1)

\* a GaussianHMM just fitted by base_model on self.X, self.lengths
NewModel(num_states) ==
    [n_components |-> num_states, fit |-> AllSequences, fitted |-> TRUE]

\* objects no variable refers to are gone
Live(h, refs) == [i \in (DOMAIN h) \cap refs |-> h[i]]

(* ------------------------------- Init ---------------------------------- *)
SelectorInit ==
    /\ n_constant \in States
    /\ min_n_components \in States
    /\ max_n_components \in States
    /\ pc = "select"
    /\ n = 0 /\ s = NaN /\ b_s = NaN /\ model = None /\ b_model = None
    /\ scores = <<>> /\ fold = 0
    /\ heap = <<>> /\ result = None /\ hist = <<>>
    /\ models = <<>> /\ items = 0
    /\ item = 1 /\ probabilities = <<>> /\ guesses = <<>> /\ attempts = <<>>

Init ==
    \/ /\ strategy = "Constant"
       /\ others = 0 /\ sequences = 1 /\ frames = 1 /\ features = 1 /\ n_splits = 3
       /\ SelectorInit
    \/ /\ strategy = "BIC"
       /\ frames \in FrameCounts /\ features \in FeatureCounts
       /\ others = 0 /\ sequences = 1 /\ n_splits = 3
       /\ n_constant = FallbackStates
       /\ SelectorInit
    \/ /\ strategy = "DIC"
       /\ others \in 0..MaxOthers
       /\ sequences = 1 /\ frames = 1 /\ features = 1 /\ n_splits = 3
       /\ n_constant = FallbackStates
       /\ SelectorInit
    \/ /\ strategy = "CV"
       /\ sequences \in 1..MaxSeqs
       /\ n_splits \in KFoldDefaults
       /\ others = 0 /\ frames = 1 /\ features = 1
       /\ n_constant = FallbackStates
       /\ SelectorInit
    \/ /\ strategy = "recognize"
       /\ \E w \in 0..MaxWords : models \in [1..w -> BOOLEAN]
       /\ items \in 0..MaxItems
       /\ n_constant = FallbackStates /\ min_n_components = 1 /\ max_n_components = 1
       /\ others = 0 /\ sequences = 1 /\ frames = 1 /\ features = 1 /\ n_splits = 3
       /\ pc = "recognize"
       /\ n = 0 /\ s = NaN /\ b_s = NaN /\ model = None /\ b_model = None
       /\ scores = <<>> /\ fold = 0
       /\ heap = <<>> /\ result = None /\ hist = <<>>
       /\ item = 1 /\ probabilities = <<>> /\ guesses = <<>> /\ attempts = <<>>

(* ---------------------------- my_recognizer ---------------------------- *)
\* calculate_score: the model's score, or -inf when scoring raises
calculate_score(outcome) == IF outcome = Raise THEN NegInf ELSE outcome

\* the dict comprehension of recognize: the words whose score is truthy
ScoreRow(o) ==
    [w \in {x \in DOMAIN o : Truthy(calculate_score(o[x]))} |-> calculate_score(o[w])]

RECURSIVE MaxFrom(_, _, _)
MaxFrom(row, rest, best) ==
    IF rest = {} THEN best
    ELSE LET w == SetMin(rest)
         IN  MaxFrom(row, rest \ {w}, IF GT(row[w], row[best]) THEN w ELSE best)

\* max(probs): the greatest key, whatever its score
MaxKeyByName(row) == CHOOSE w \in DOMAIN row : \A x \in DOMAIN row : x <= w

\* max(probs, key=probs.get) of a non-empty dict, keys in insertion order
MaxKey(row) ==
    LET first == SetMin(DOMAIN row)
    IN  MaxFrom(row, (DOMAIN row) \ {first}, first)

\* one iteration of the for loop of recognize
RecognizeItem ==
    /\ strategy = "recognize" /\ pc = "recognize"
    /\ item <= items
    /\ \E o \in [DOMAIN models -> ScoreOutcomes] :
          /\ \A w \in DOMAIN models : ~models[w] => o[w] = Raise
          /\ LET probs == ScoreRow(o)
             IN  /\ attempts' = Append(attempts, o)
                 /\ probabilities' = Append(probabilities, probs)
                 /\ IF DOMAIN probs = {}
                    THEN /\ pc' = "raised"      \* max() of an empty dict: ValueError
                         /\ UNCHANGED <<guesses, item>>
                    ELSE /\ guesses' = Append(guesses, MaxKey(probs))
                         /\ item' = item + 1
                         /\ pc' = pc
    /\ UNCHANGED <<cfgVars, selVars>>

\* return probabilities, guesses
RecognizeReturn ==
    /\ strategy = "recognize" /\ pc = "recognize"
    /\ item > items
    /\ pc' = "done"
    /\ UNCHANGED <<cfgVars, selVars, recVars>>

(* -------------------------- my_model_selectors ------------------------- *)
\* SelectorConstant.select: base_model(n_constant), a model or None
SelectConstant ==
    /\ strategy = "Constant" /\ pc = "select"
    /\ \E trained \in BOOLEAN :
          /\ result' = IF trained THEN n_constant ELSE None
          /\ heap' = IF trained THEN (n_constant :> NewModel(n_constant)) ELSE <<>>
          /\ hist' = (n_constant :> [failed |-> ~trained, logL |-> 0, aux |-> <<>>])
    /\ pc' = "done"
    /\ UNCHANGED <<cfgVars, recVars, n, s, b_s, model, b_model, scores, fold>>

\* range(min_n_components, max_n_components + 2)
RangeDonePastEnd == n > max_n_components + 1

\* the loop of select is over: range(min_n_components, max_n_components + 1)
RangeDone == n > max_n_components

\* SelectorBIC score of a candidate
BICScore(logL, num_states) ==
    Ratio(-2 * logL * 1000
            + (num_states * num_states + 2 * features * num_states - 1) * LnMilli(frames),
          1000)

\* if s <= b_s
BICBetterOrEqual(new, best) == GE(best, new)

\* if s < b_s
BICBetter(new, best) == LT(new, best)

\* b_s = float('inf'); b_model = None; enter the loop
BICStart ==
    /\ strategy = "BIC" /\ pc = "select"
    /\ b_s' = PosInf /\ b_model' = None
    /\ n' = min_n_components
    /\ pc' = "loop"
    /\ UNCHANGED <<cfgVars, recVars, s, model, scores, fold, heap, result, hist>>

\* one iteration of the loop of SelectorBIC.select
BICStep ==
    /\ strategy = "BIC" /\ pc = "loop" /\ ~RangeDone
    /\ \E trained \in BOOLEAN, o \in ScoreOutcomes :
          /\ ~trained => o = Raise       \* None.score raises AttributeError
          /\ LET m == IF trained THEN n ELSE None
                 h == IF trained THEN (n :> NewModel(n)) @@ heap ELSE heap
                 sc == IF o = Raise THEN PosInf ELSE BICScore(o.num, n)
                 better == BICBetter(sc, b_s)
             IN  /\ model' = m
                 /\ s' = sc
                 /\ b_s' = IF better THEN sc ELSE b_s
                 /\ b_model' = IF better THEN m ELSE b_model
                 /\ heap' = Live(h, {m, IF better THEN m ELSE b_model})
                 /\ hist' = (n :> [failed |-> (o = Raise), logL |-> o.num, aux |-> <<>>]) @@ hist
    /\ n' = n + 1
    /\ UNCHANGED <<cfgVars, recVars, pc, scores, fold, result>>

\* return b_model
BICReturn ==
    /\ strategy = "BIC" /\ pc = "loop" /\ RangeDone
    /\ result' = b_model
    /\ heap' = Live(heap, {b_model})
    /\ pc' = "done"
    /\ UNCHANGED <<cfgVars, recVars, n, s, b_s, model, b_model, scores, fold, hist>>

\* if s >= b_s
DICBetterOrEqual(new, best) == GE(new, best)

\* if s > b_s
DICBetter(new, best) == GT(new, best)

\* b_s = float('-inf'); b_model = None; enter the loop
DICStart ==
    /\ strategy = "DIC" /\ pc = "select"
    /\ b_s' = NegInf /\ b_model' = None
    /\ n' = min_n_components
    /\ pc' = "loop"
    /\ UNCHANGED <<cfgVars, recVars, s, model, scores, fold, heap, result, hist>>

\* logL - np.mean(tmp_scores); the mean of no scores is NaN, not an exception
DICScore(logL, tmp_scores) == Sub(Num(logL), NpMean(tmp_scores))

\* the scores of a list of successful score calls
RECURSIVE Values(_)
Values(q) == IF q = <<>> THEN <<>> ELSE <<Head(q).num>> \o Values(Tail(q))

\* one iteration of the loop of SelectorDIC.select
DICStep ==
    /\ strategy = "DIC" /\ pc = "loop" /\ ~RangeDone
    /\ \E trained \in BOOLEAN, own \in CandidateOutcomes, oth \in [1..others -> CandidateOutcomes] :
          /\ ~trained => own = Raise     \* None.score raises AttributeError
          /\ own = Raise => \A w \in 1..others : oth[w] = Raise   \* never reached
          /\ LET m == IF trained THEN n ELSE None
                 h == IF trained THEN (n :> NewModel(n)) @@ heap ELSE heap
                 raised == own = Raise \/ \E w \in 1..others : oth[w] = Raise
                 sc == IF raised THEN NegInf ELSE DICScore(own.num, Values(oth))
                 better == DICBetter(sc, b_s)
             IN  /\ model' = m
                 /\ s' = sc
                 /\ b_s' = IF better THEN sc ELSE b_s
                 /\ b_model' = IF better THEN m ELSE b_model
                 /\ heap' = Live(h, {m, IF better THEN m ELSE b_model})
                 /\ hist' = (n :> [failed |-> raised,
                                   logL |-> IF raised THEN 0 ELSE own.num,
                                   aux |-> IF raised THEN <<>> ELSE Values(oth)]) @@ hist
    /\ n' = n + 1
    /\ UNCHANGED <<cfgVars, recVars, pc, scores, fold, result>>

\* return b_model
DICReturn ==
    /\ strategy = "DIC" /\ pc = "loop" /\ RangeDone
    /\ result' = b_model
    /\ heap' = Live(heap, {b_model})
    /\ pc' = "done"
    /\ UNCHANGED <<cfgVars, recVars, n, s, b_s, model, b_model, scores, fold, hist>>

\* the heap key of the model SelectorCV trains before its loop
Fallback == 0

\* if s >= b_s
CVBetterOrEqual(new, best) == GE(new, best)

\* if s > b_s
CVBetter(new, best) == GT(new, best)

\* if len(self.sequences) < 3: return b_model
TooFewSequences == sequences < CVMinSequences

\* b_s = float('-inf'); b_model = self.base_model(3); return it or enter the loop
CVStart ==
    /\ strategy = "CV" /\ pc = "select"
    /\ \E trained \in BOOLEAN :
          /\ b_model' = IF trained THEN Fallback ELSE None
          /\ heap' = IF trained THEN (Fallback :> NewModel(FallbackStates)) ELSE <<>>
          /\ hist' = (Fallback :> [failed |-> ~trained, total |-> 0, folds |-> 0])
          /\ result' = IF TooFewSequences THEN b_model' ELSE result
    /\ b_s' = NegInf
    /\ n' = min_n_components
    /\ pc' = IF TooFewSequences THEN "done" ELSE "loop"
    /\ UNCHANGED <<cfgVars, recVars, s, model, scores, fold>>

\* KFold().split: impossible with fewer samples than splits
SplitRaises == sequences < n_splits

\* the test indices of fold j (0-based) of KFold without shuffling
TestIndex(j) ==
    LET base == sequences \div n_splits
        extra == sequences % n_splits
        start == j * base + (IF j < extra THEN j ELSE extra)
        size == base + (IF j < extra THEN 1 ELSE 0)
    IN  start..(start + size - 1)

\* the train indices of fold j
TrainIndex(j) == AllSequences \ TestIndex(j)

\* except: pass -- the candidate is dropped, the loop goes on
CVSkip ==
    /\ hist' = (n :> [failed |-> TRUE, total |-> 0, folds |-> 0]) @@ hist
    /\ n' = n + 1
    /\ pc' = "loop"
    /\ UNCHANGED <<s, b_s, b_model, result>>

\* top of the try block: scores = []; model = self.base_model(n); kf.split(...)
CVCandidate ==
    /\ strategy = "CV" /\ pc = "loop" /\ ~RangeDone
    /\ \E trained \in BOOLEAN :
          LET m == IF trained THEN n ELSE None
              h == IF trained THEN (n :> NewModel(n)) @@ heap ELSE heap
          IN  /\ model' = m
              /\ heap' = Live(h, {m, b_model})
    /\ scores' = <<>>
    /\ fold' = 0
    /\ IF SplitRaises
       THEN CVSkip
       ELSE /\ pc' = "fold"
            /\ UNCHANGED <<n, s, b_s, b_model, result, hist>>
    /\ UNCHANGED <<cfgVars, recVars>>

\* one fold: model.fit(X_train, len_train); scores.append(model.score(X_test, len_test))
CVFold ==
    /\ strategy = "CV" /\ pc = "fold" /\ fold < n_splits
    /\ IF model = None
       THEN /\ CVSkip                   \* None.fit raises AttributeError
            /\ UNCHANGED <<heap, scores, fold>>
       ELSE \E fitted \in BOOLEAN, o \in CandidateOutcomes :
              /\ ~fitted => o = Raise
              /\ heap' = [heap EXCEPT ![model].fit = TrainIndex(fold),
                                      ![model].fitted = fitted]
              /\ IF o = Raise
                 THEN /\ CVSkip
                      /\ UNCHANGED <<scores, fold>>
                 ELSE /\ scores' = Append(scores, o.num)
                      /\ fold' = fold + 1
                      /\ UNCHANGED <<n, pc, s, b_s, b_model, result, hist>>
    /\ UNCHANGED <<cfgVars, recVars, model>>

\* after the folds: s = statistics.mean(scores); if s > b_s: keep this candidate
CVScore ==
    /\ strategy = "CV" /\ pc = "fold" /\ fold = n_splits
    /\ LET sc == StatisticsMean(scores)
           better == CVBetter(sc, b_s)
       IN  /\ s' = sc
           /\ b_s' = IF better THEN sc ELSE b_s
           /\ b_model' = IF better THEN model ELSE b_model
           /\ heap' = Live(heap, {model, IF better THEN model ELSE b_model})
    /\ hist' = (n :> [failed |-> FALSE, total |-> SumSeq(scores), folds |-> Len(scores)]) @@ hist
    /\ n' = n + 1
    /\ pc' = "loop"
    /\ UNCHANGED <<cfgVars, recVars, model, scores, fold, result>>

\* return b_model
CVReturn ==
    /\ strategy = "CV" /\ pc = "loop" /\ RangeDone
    /\ result' = b_model
    /\ heap' = Live(heap, {b_model})
    /\ pc' = "done"
    /\ UNCHANGED <<cfgVars, recVars, n, s, b_s, model, b_model, scores, fold, hist>>

Next ==
    \/ RecognizeItem
    \/ RecognizeReturn
    \/ SelectConstant
    \/ BICStart
    \/ BICStep
    \/ BICReturn
    \/ DICStart
    \/ DICStep
    \/ DICReturn
    \/ CVStart
    \/ CVCandidate
    \/ CVFold
    \/ CVScore
    \/ CVReturn

Spec == Init /\ [][Next]_vars
(* ------------------------------ properties ----------------------------- *)
Range == min_n_components..max_n_components
Selecting == strategy \in {"Constant", "BIC", "DIC", "CV"}
Returned == Selecting /\ pc = "done" /\ result # None

\* the candidates evaluated so far, and those evaluated without a failure
Evaluated == (DOMAIN hist) \ {Fallback}
Succeeded == {m \in Evaluated : ~hist[m].failed}

\* the words of item i whose scoring did not raise
Scored(i) == {w \in DOMAIN models : attempts[i][w] # Raise}

\* C1: a word whose scoring raised for an item (a null model included) has no
\* entry in that item's row, and the item's guess is a maximum-score word among
\* the words that were scored.
C1_FailedWordAbsent ==
    strategy = "recognize" =>
        \A i \in 1..Len(probabilities) : \A w \in DOMAIN models :
            attempts[i][w] = Raise =>
                /\ w \notin DOMAIN probabilities[i]
                /\ i <= Len(guesses) =>
                      /\ guesses[i] \in Scored(i)
                      /\ \A x \in Scored(i) : GE(attempts[i][guesses[i]], attempts[i][x])

\* C2 (as claimed): whatever the strategy and the settings, a non-null model
\* returned by select has min_n_components <= n <= max_n_components states.
C2_ResultInRange ==
    Returned => heap[result].n_components \in Range

\* C2 (amended): a non-null model returned by SelectorBIC or SelectorDIC has a
\* state count in [min_n_components, max_n_components]; SelectorConstant's has
\* exactly n_constant states; SelectorCV's has a state count in the range or is
\* the 3-state model trained before the loop.
C2_ResultInRangeOrFixed ==
    Returned =>
        CASE strategy = "Constant" -> heap[result].n_components = n_constant
          [] strategy = "CV" ->
                \/ heap[result].n_components \in Range
                \/ result = Fallback /\ heap[result].n_components = FallbackStates
          [] OTHER -> heap[result].n_components \in Range

C2_Witness ==
    /\ Returned /\ strategy = "CV" /\ ~TooFewSequences
    /\ Succeeded = {} /\ Evaluated # {}
    /\ result = Fallback
    /\ FallbackStates \notin Range

\* C3: for an item for which no word's scoring succeeds, recognize ends in an
\* error and no word is returned as that item's guess.
C3_NothingScoredRaises ==
    strategy = "recognize" =>
        \A i \in 1..Len(attempts) :
            Scored(i) = {} => (pc = "raised" /\ Len(guesses) < i)

\* C4: rows and guesses are produced one per test item in the test set's
\* order, and the guess of every item with a non-empty row is a key of that
\* row whose log-likelihood is >= every entry of the row.
C4_GuessIsRowMaximum ==
    strategy = "recognize" =>
        /\ Len(probabilities) = Len(attempts)
        /\ Len(guesses) = Len(probabilities) - (IF pc = "raised" THEN 1 ELSE 0)
        /\ pc = "done" => Len(guesses) = items
        /\ \A i \in 1..Len(probabilities) :
              /\ DOMAIN probabilities[i] \subseteq DOMAIN models
              /\ \A w \in DOMAIN probabilities[i] :
                    probabilities[i][w] = calculate_score(attempts[i][w])
              /\ DOMAIN probabilities[i] # {} =>
                    /\ i <= Len(guesses)
                    /\ guesses[i] \in DOMAIN probabilities[i]
                    /\ \A w \in DOMAIN probabilities[i] :
                          GE(probabilities[i][guesses[i]], probabilities[i][w])

C4_Witness ==
    /\ strategy = "recognize" /\ pc = "done" /\ items = MaxItems
    /\ \E i \in 1..Len(guesses) :
          /\ Cardinality(DOMAIN probabilities[i]) >= 2
          /\ guesses[i] # SetMin(DOMAIN probabilities[i])
          /\ \E w \in DOMAIN probabilities[i] :
                GT(probabilities[i][guesses[i]], probabilities[i][w])
          /\ \A w \in DOMAIN probabilities[i] : probabilities[i][w].k = "num"

\* C5: a word whose model scored an item with a log-likelihood of exactly 0
\* has an entry in that item's row.
C5_ZeroScoreKept ==
    strategy = "recognize" =>
        \A i \in 1..Len(probabilities) : \A w \in DOMAIN models :
            attempts[i][w] = Num(0) => w \in DOMAIN probabilities[i]

\* C6: the model select returns still holds the fit base_model gave it: it was
\* never refit after base_model returned it.
C6_ReturnedModelKeepsFit ==
    Returned => heap[result] = NewModel(heap[result].n_components)

\* -2*logL + (n^2 + 2*f*n - 1)*log(N), in thousandths
ExpectedBIC(m) ==
    Ratio(-2000 * hist[m].logL + (m * m + 2 * features * m - 1) * LnMilli(frames), 1000)

LowestBIC == {m \in Succeeded : \A x \in Succeeded : ~LT(ExpectedBIC(x), ExpectedBIC(m))}

\* C7: SelectorBIC evaluates n in ascending order over the whole range; a
\* failed candidate is scored +inf, is never selected and does not stop the
\* search; the best model is that of the lowest n attaining the minimum of
\* -2*logL + (n^2 + 2*f*n - 1)*log(N) among the successful candidates, and
\* the result is None exactly when every candidate failed.
C7_BICSelectsLowestMinimum ==
    (strategy = "BIC" /\ pc # "select") =>
        /\ Evaluated = min_n_components..(n - 1)
        /\ pc = "done" => (n > max_n_components /\ result = b_model)
        /\ (Evaluated # {} /\ hist[n - 1].failed) => s = PosInf
        /\ (Evaluated # {} /\ ~hist[n - 1].failed) => s = ExpectedBIC(n - 1)
        /\ IF Succeeded = {}
           THEN b_model = None /\ b_s = PosInf
           ELSE /\ b_model = SetMin(LowestBIC)
                /\ b_s = ExpectedBIC(b_model)
                /\ heap[b_model].n_components = b_model

C7_Witness ==
    /\ strategy = "BIC" /\ pc = "done"
    /\ Cardinality(LowestBIC) >= 2
    /\ \E m \in Evaluated : hist[m].failed /\ m < result
    /\ result = SetMin(LowestBIC)

\* logL on the word's own data minus the mean of the log-likelihoods on the
\* other words' data; with no other word the mean, and the score, is NaN
ExpectedDIC(m) ==
    IF hist[m].aux = <<>> THEN NaN
    ELSE Ratio(hist[m].logL * Len(hist[m].aux) - SumSeq(hist[m].aux), Len(hist[m].aux))

HighestDIC == {m \in Succeeded : \A x \in Succeeded : GE(ExpectedDIC(m), ExpectedDIC(x))}

\* C8: SelectorDIC evaluates n in ascending order over the whole range, with
\* score = logL - mean(log-likelihoods on every other word); a candidate with
\* any training or scoring failure is scored -inf and never selected; the best
\* model is that of the lowest n attaining the maximum score among the
\* successful candidates.
C8_DICSelectsLowestMaximum ==
    (strategy = "DIC" /\ pc # "select") =>
        /\ Evaluated = min_n_components..(n - 1)
        /\ pc = "done" => (n > max_n_components /\ result = b_model)
        /\ \A m \in Succeeded : Len(hist[m].aux) = others
        /\ (Evaluated # {} /\ hist[n - 1].failed) => s = NegInf
        /\ (Evaluated # {} /\ ~hist[n - 1].failed) => s = ExpectedDIC(n - 1)
        /\ IF HighestDIC = {}
           THEN b_model = None /\ b_s = NegInf
           ELSE /\ b_model = SetMin(HighestDIC)
                /\ b_s = ExpectedDIC(b_model)
                /\ heap[b_model].n_components = b_model

C8_Witness ==
    /\ strategy = "DIC" /\ pc = "done" /\ others = MaxOthers
    /\ Cardinality(HighestDIC) >= 2
    /\ \E m \in Evaluated : hist[m].failed /\ m < result
    /\ result = SetMin(HighestDIC)

\* C9 (as claimed): with no other word, select does not raise, every
\* candidate is scored -inf, none is selected and select returns None.
C9_EmptyMeanScoredNegInf ==
    (strategy = "DIC" /\ others = 0 /\ pc # "select") =>
        /\ pc \in {"loop", "done"}
        /\ Evaluated # {} => s = NegInf
        /\ b_model = None
        /\ pc = "done" => result = None

\* C9 (amended): with no other word, select does not raise: the empty mean is
\* NaN, so a candidate that trains and scores is scored NaN (-inf only when
\* training or scoring fails), NaN is never greater than the best score, no
\* candidate is selected and select returns None.
C9_EmptyMeanSelectsNothing ==
    (strategy = "DIC" /\ others = 0 /\ pc # "select") =>
        /\ pc \in {"loop", "done"}
        /\ Evaluated # {} => s = (IF hist[n - 1].failed THEN NegInf ELSE NaN)
        /\ b_model = None /\ b_s = NegInf
        /\ pc = "done" => result = None /\ Evaluated = Range

C9_Witness ==
    /\ strategy = "DIC" /\ others = 0 /\ pc = "done"
    /\ Succeeded # {}
    /\ s = NaN
    /\ result = None

\* the average fold score of a completed candidate
ExpectedCV(m) == Ratio(hist[m].total, hist[m].folds)

HighestCV == {m \in Succeeded : \A x \in Succeeded : GE(ExpectedCV(m), ExpectedCV(x))}

\* what base_model(3) returned before the loop
FallbackResult == IF hist[Fallback].failed THEN None ELSE Fallback

\* C10: with at least 3 sequences, a candidate with a failure anywhere in its
\* fold loop leaves the best score and the best model as they were; a
\* completed candidate replaces them only with a strictly greater average,
\* so the best model is that of the lowest n attaining the maximum average;
\* with no completed candidate it is the result of base_model(3); with fewer
\* than 3 sequences that result is returned and no candidate is evaluated.
C10_CVKeepsBestCompleted ==
    (strategy = "CV" /\ pc # "select") =>
        /\ TooFewSequences => (pc = "done" /\ Evaluated = {} /\ result = FallbackResult)
        /\ \A m \in Succeeded : hist[m].folds = n_splits
        /\ pc = "fold" => (n \notin Evaluated /\ fold = Len(scores))
        /\ IF Succeeded = {}
           THEN b_model = FallbackResult /\ b_s = NegInf
           ELSE /\ b_model = SetMin(HighestCV)
                /\ b_s = ExpectedCV(b_model)
                /\ heap[b_model].n_components = b_model
        /\ b_model = Fallback => heap[Fallback] = NewModel(FallbackStates)
        /\ pc = "done" =>
              /\ result = b_model
              /\ ~TooFewSequences => Evaluated = Range

C10_Witness ==
    /\ strategy = "CV" /\ pc = "done" /\ ~TooFewSequences
    /\ Cardinality(HighestCV) >= 2
    /\ \E m \in Evaluated : hist[m].failed /\ m > result
    /\ result = SetMin(HighestCV)
====
